---- MODULE Spec2Model ----
(***************************************************************************)
(* Model of src/arch-syscall-ranges.py: the batch program that loads       *)
(* syscalls.csv and introduced.csv, compiles per architecture and kernel   *)
(* version the contiguous ranges of syscall numbers, and writes ranges.h.  *)
(*                                                                         *)
(* A line of a csv file is the sequence of its comma separated columns     *)
(* (line.split(',')); a column is a string.  Python indexes from 0, TLA+   *)
(* from 1: the Python expression cols[k] is cols[k + 1] here.              *)
(***************************************************************************)
EXTENDS Integers, Sequences, FiniteSets, TLC

VARIABLES pc, exc, idx, settings, built, hf, val

vars == <<pc, exc, idx, settings, built, hf, val>>

(***************************************************************************)
(* Bounds of the model.                                                    *)
(***************************************************************************)
\* most architectures (columns after the first) of a header or a row
MaxArch == 2
\* most data rows of syscalls.csv
MaxRows == 3
\* most cells (architectures times rows) of a syscalls.csv of more than one
\* architecture
MaxWideCells == 2

(***************************************************************************)
(* KERNEL_DICT, in the insertion order Python iterates it in.              *)
(***************************************************************************)
KernelKeys ==
    << "SCMP_KV_UNDEF", "SCMP_KV_UNKNOWN",
       "SCMP_KV_5_04", "SCMP_KV_5_05", "SCMP_KV_5_06", "SCMP_KV_5_07",
       "SCMP_KV_5_08", "SCMP_KV_5_09", "SCMP_KV_5_10", "SCMP_KV_5_11",
       "SCMP_KV_5_12", "SCMP_KV_5_13", "SCMP_KV_5_14", "SCMP_KV_5_15",
       "SCMP_KV_5_16", "SCMP_KV_5_17", "SCMP_KV_5_18" >>

KeySet == {KernelKeys[i] : i \in 1..Len(KernelKeys)}

KERNEL_DICT ==
    [key \in KeySet |->
        CASE key = "SCMP_KV_UNDEF" -> -1
          [] key = "SCMP_KV_UNKNOWN" -> -2
          [] OTHER -> (CHOOSE i \in 1..Len(KernelKeys) : KernelKeys[i] = key) - 2]

\* the keys that name a kernel version (not one of the two sentinels)
VersionKeys == {key \in KeySet : KERNEL_DICT[key] >= 0}

(***************************************************************************)
(* The columns the input files are drawn from, and the string operations   *)
(* the program applies to them.                                            *)
(***************************************************************************)
\* first column of the header of syscalls.csv
SyscallsStamps == {"#syscall (v5.18.0 2022-05-25)"}
\* first column of the header of introduced.csv
IntroducedStamps ==
    {"#syscall (v5.18.0 2022-05-25)", "#syscall (v5.18.0 2022-06-01)",
     "#syscall (v5.17.0 2022-05-25)"}
\* architecture columns of a header, one of them with surrounding blanks
ArchCols == {"x86_64", " x86_64 ", "x86"}
\* first column of data row r of syscalls.csv
SyscallNameAt == <<"read", "write", "open", "close", "fstat", "ioctl">>
\* syscall number columns of syscalls.csv
NumCols == {"0", "1", "3"}
\* version columns of introduced.csv; SCMP_KV_4_19 is no key of KERNEL_DICT
MarkerCols ==
    {"SCMP_KV_UNDEF", "SCMP_KV_UNKNOWN", "SCMP_KV_5_04", "SCMP_KV_5_05",
     "SCMP_KV_4_19"}

\* str.strip()
strip(col) ==
    CASE col = " x86_64 " -> "x86_64"
      [] OTHER -> col

\* col.split(' ')[1][1:] of a header's first column
kernel_version_of(col) ==
    CASE col = "#syscall (v5.18.0 2022-05-25)" -> "v5.18.0"
      [] col = "#syscall (v5.18.0 2022-06-01)" -> "v5.18.0"
      [] col = "#syscall (v5.17.0 2022-05-25)" -> "v5.17.0"

\* col.split(' ')[2][:-1] of a header's first column
date_of(col) ==
    CASE col = "#syscall (v5.18.0 2022-05-25)" -> "2022-05-25"
      [] col = "#syscall (v5.18.0 2022-06-01)" -> "2022-06-01"
      [] col = "#syscall (v5.17.0 2022-05-25)" -> "2022-05-25"

\* int(syscall_num)
int(col) ==
    CASE col = "0" -> 0
      [] col = "1" -> 1
      [] col = "2" -> 2
      [] col = "3" -> 3
      [] col = "4" -> 4
      [] col = "5" -> 5

\* the sequences over S of length lo..hi
SeqsOf(S, lo, hi) == UNION {[1..n -> S] : n \in lo..hi}

(***************************************************************************)
(* class Arch, class Settings                                              *)
(***************************************************************************)
\* dict(): a dict is a function whose domain is the set of its keys
EmptyDict == [key \in {} |-> <<>>]

\* d[key] = value
DictSet(d, key, value) ==
    [k \in (DOMAIN d) \cup {key} |-> IF k = key THEN value ELSE d[k]]

Arch(name) ==
    [name |-> name, syscall_nums |-> <<>>, introduced_version |-> <<>>,
     ranges |-> EmptyDict, valid |-> TRUE]

\* the module-level name settings before parse_syscalls_header has bound it
Unbound ==
    [bound |-> FALSE, kernel_version |-> "", date |-> "", arch_cnt |-> 0,
     arch |-> <<>>, syscall_names |-> <<>>]

Settings(kernel_version, arch_cnt, date) ==
    [bound |-> TRUE, kernel_version |-> kernel_version, date |-> date,
     arch_cnt |-> arch_cnt, arch |-> <<>>, syscall_names |-> <<>>]

\* The exceptions: the type and, for the program's own raise statements, the
\* start of the message.  "None": the call returned.
RowArchCount == "IndexError: architectures were specified in the header"
HeaderArchCount == "IndexError: syscalls.csv has {} architectures"
HeaderKernel == "IndexError: syscalls.csv is based on kernel"
HeaderArchName == "IndexError: syscalls.csv has architecture"
RowSyscallName == "IndexError: syscalls.csv has syscall"
ListIndex == "IndexError: list index out of range"
KeyError == "KeyError"
NameError == "NameError"
ArithmeticError == "ArithmeticError: Unexpected syscall number"

\* what a call returns: the exception it raised and the settings as the call
\* left them
Result(e, s) == [exc |-> e, settings |-> s]

(***************************************************************************)
(* The loaders                                                             *)
(***************************************************************************)
parse_syscalls_header(cols) ==
    LET s == Settings(kernel_version_of(cols[1]), Len(cols) - 1, date_of(cols[1]))
    IN  Result("None",
               [s EXCEPT !.arch = [k \in 1..(Len(cols) - 1) |-> Arch(strip(cols[k + 1]))]])

parse_syscalls_data(s, cols) ==
    IF Len(cols) - 1 # s.arch_cnt
    THEN Result(RowArchCount, s)
    ELSE Result("None",
                [s EXCEPT !.syscall_names = Append(@, strip(cols[1])),
                          !.arch = [k \in 1..Len(s.arch) |->
                                       [s.arch[k] EXCEPT !.syscall_nums =
                                            Append(@, strip(cols[k + 1]))]]])

parse_introduced_header_any_order(s, cols) ==
    IF ~s.bound THEN Result(NameError, s)
    ELSE IF Len(cols) - 1 # s.arch_cnt THEN Result(HeaderArchCount, s)
    ELSE IF kernel_version_of(strip(cols[1])) # s.kernel_version
         THEN Result(HeaderKernel, s)
    ELSE IF {s.arch[k].name : k \in 1..(Len(cols) - 1)}
              # {strip(cols[k + 1]) : k \in 1..(Len(cols) - 1)}
         THEN Result(HeaderArchName, s)
    ELSE Result("None", s)

parse_introduced_header(s, cols) ==
    IF ~s.bound THEN Result(NameError, s)
    ELSE IF Len(cols) - 1 # s.arch_cnt THEN Result(HeaderArchCount, s)
    ELSE IF kernel_version_of(strip(cols[1])) # s.kernel_version
         THEN Result(HeaderKernel, s)
    ELSE IF \E k \in 1..(Len(cols) - 1) : s.arch[k].name # strip(cols[k + 1])
         THEN Result(HeaderArchName, s)
    ELSE Result("None", s)

\* the columns idx >= 1 of parse_introduced_data's loop, from column k on
RECURSIVE introduced_cols(_, _, _)
introduced_cols(s, cols, k) ==
    IF k > Len(cols) - 1 THEN Result("None", s)
    ELSE LET col == strip(cols[k + 1])
         IN  IF col \notin KeySet THEN Result(KeyError, s)
             ELSE LET kernel_enum == KERNEL_DICT[col]
                      s1 == [s EXCEPT !.arch[k].introduced_version =
                                          Append(@, kernel_enum)]
                      s2 == IF kernel_enum = KERNEL_DICT["SCMP_KV_UNKNOWN"]
                            THEN [s1 EXCEPT !.arch[k].valid = FALSE]
                            ELSE s1
                  IN  introduced_cols(s2, cols, k + 1)

parse_introduced_data_late_check(s, cols, line_num) ==
    IF ~s.bound THEN Result(NameError, s)
    ELSE IF Len(cols) - 1 # s.arch_cnt THEN Result(RowArchCount, s)
    ELSE LET r == introduced_cols(s, cols, 1)
         IN  IF r.exc # "None" THEN r
             ELSE IF line_num - 1 >= Len(s.syscall_names) THEN Result(ListIndex, r.settings)
             ELSE IF s.syscall_names[line_num] # strip(cols[1])
                  THEN Result(RowSyscallName, r.settings)
             ELSE r

parse_introduced_data(s, cols, line_num) ==
    IF ~s.bound THEN Result(NameError, s)
    ELSE IF Len(cols) - 1 # s.arch_cnt THEN Result(RowArchCount, s)
    ELSE IF line_num - 1 >= Len(s.syscall_names) THEN Result(ListIndex, s)
    ELSE IF s.syscall_names[line_num] # strip(cols[1]) THEN Result(RowSyscallName, s)
    ELSE introduced_cols(s, cols, 1)

(***************************************************************************)
(* The range compiler                                                      *)
(***************************************************************************)
\* list.sort() of a list of integers
RECURSIVE Insert(_, _)
Insert(sorted, n) ==
    IF sorted = <<>> THEN <<n>>
    ELSE IF n < Head(sorted) THEN <<n>> \o sorted
    ELSE <<Head(sorted)>> \o Insert(Tail(sorted), n)

RECURSIVE Sort(_)
Sort(nums) ==
    IF nums = <<>> THEN <<>> ELSE Insert(Sort(SubSeq(nums, 1, Len(nums) - 1)), nums[Len(nums)])

\* "We have jumped at least two syscall numbers" at list position k
jumped_adjacent(sorted_syscall_nums, k) ==
    sorted_syscall_nums[k] > sorted_syscall_nums[k - 1]

jumped(sorted_syscall_nums, k) ==
    sorted_syscall_nums[k] > sorted_syscall_nums[k - 1] + 1

\* the for loop of convert_list_to_ranges from list position k on (Python's
\* idx is k - 1); start is <<>> for None and <<n>> for the number n
RECURSIVE convert_loop(_, _, _, _)
convert_loop(sorted_syscall_nums, k, start, ranges) ==
    IF k > Len(sorted_syscall_nums)
    THEN [exc |-> "None", start |-> start, ranges |-> ranges]
    ELSE LET syscall_num == sorted_syscall_nums[k]
         IN  IF start = <<>>
             THEN convert_loop(sorted_syscall_nums, k + 1, <<syscall_num>>, ranges)
             ELSE IF syscall_num <= start[1]
             THEN [exc |-> ArithmeticError, start |-> start, ranges |-> ranges]
             ELSE IF jumped(sorted_syscall_nums, k)
             THEN convert_loop(sorted_syscall_nums, k + 1, <<syscall_num>>,
                               Append(ranges, <<start[1], sorted_syscall_nums[k - 1]>>))
             ELSE convert_loop(sorted_syscall_nums, k + 1, start, ranges)

convert_list_to_ranges_no_last(arch, sorted_syscall_nums) ==
    LET r == convert_loop(sorted_syscall_nums, 1, <<>>, <<>>)
    IN  IF r.exc # "None" THEN [exc |-> r.exc, ranges |-> <<>>]
        ELSE [exc |-> "None", ranges |-> r.ranges]

\* returns [exc, ranges]; the list is never empty (build_ranges checks)
convert_list_to_ranges(arch, sorted_syscall_nums) ==
    LET r == convert_loop(sorted_syscall_nums, 1, <<>>, <<>>)
    IN  IF r.exc # "None" THEN [exc |-> r.exc, ranges |-> <<>>]
        ELSE [exc |-> "None",
              ranges |-> Append(r.ranges,
                                <<r.start[1],
                                  sorted_syscall_nums[Len(sorted_syscall_nums)]>>)]

\* whether syscall k of arch is selected for key
is_introduced_flipped(arch, k, key) ==
    /\ arch.introduced_version[k] >= 0
    /\ arch.introduced_version[k] >= KERNEL_DICT[key]

is_introduced(arch, k, key) ==
    /\ arch.introduced_version[k] >= 0
    /\ arch.introduced_version[k] <= KERNEL_DICT[key]

\* the inner loop of build_ranges from list position k on: the selected
\* numbers, or the exception reading introduced_version[idx] raised
RECURSIVE select_loop(_, _, _, _)
select_loop(arch, key, k, valid_syscall_nums) ==
    IF k > Len(arch.syscall_nums)
    THEN [exc |-> "None", nums |-> valid_syscall_nums]
    ELSE IF k > Len(arch.introduced_version)
    THEN [exc |-> ListIndex, nums |-> valid_syscall_nums]
    ELSE IF is_introduced(arch, k, key)
    THEN select_loop(arch, key, k + 1,
                     Append(valid_syscall_nums, int(arch.syscall_nums[k])))
    ELSE select_loop(arch, key, k + 1, valid_syscall_nums)

\* the loop over KERNEL_DICT of build_ranges from key position j on; returns
\* [exc, arch]: an exception leaves the keys stored before it in arch.ranges
RECURSIVE key_loop(_, _)
key_loop(arch, j) ==
    IF j > Len(KernelKeys) THEN [exc |-> "None", arch |-> arch]
    ELSE LET key == KernelKeys[j]
             sel == select_loop(arch, key, 1, <<>>)
         IN  IF sel.exc # "None" THEN [exc |-> sel.exc, arch |-> arch]
             ELSE IF Len(sel.nums) > 0
             THEN LET c == convert_list_to_ranges(arch, Sort(sel.nums))
                  IN  IF c.exc # "None" THEN [exc |-> c.exc, arch |-> arch]
                      ELSE key_loop([arch EXCEPT !.ranges = DictSet(@, key, c.ranges)],
                                    j + 1)
             ELSE key_loop(arch, j + 1)

build_ranges_ignoring_valid(arch) ==
    IF arch.name # "x86_64" THEN [exc |-> "None", arch |-> arch]
    ELSE key_loop(arch, 1)

build_ranges(arch) ==
    IF ~arch.valid THEN [exc |-> "None", arch |-> arch]
    ELSE IF arch.name # "x86_64" THEN [exc |-> "None", arch |-> arch]
    ELSE key_loop(arch, 1)

(***************************************************************************)
(* The emitter.  ranges.h is the sequence of the pieces written to it: a   *)
(* named array is its architecture name, its key and its {start, end}      *)
(* pairs; a table is its two declared dimensions and its rows of cells.    *)
(* A cell of range_table is <<>> for NULL and <<name, key>> for the array  *)
(* ranges_<name>_<key>.                                                    *)
(***************************************************************************)
\* the keys of d in the order of KernelKeys (insertion order of arch.ranges)
RECURSIVE keys_from(_, _)
keys_from(d, j) ==
    IF j > Len(KernelKeys) THEN <<>>
    ELSE IF KernelKeys[j] \in DOMAIN d
         THEN <<KernelKeys[j]>> \o keys_from(d, j + 1)
         ELSE keys_from(d, j + 1)

\* print_range writing rng[0] in both places
print_range_start_twice(arch_name, key, ranges) ==
    [kind |-> "ranges", arch_name |-> arch_name, key |-> key,
     pairs |-> [j \in 1..Len(ranges) |-> <<ranges[j][1], ranges[j][1]>>]]

print_range(arch_name, key, ranges) ==
    [kind |-> "ranges", arch_name |-> arch_name, key |-> key,
     pairs |-> [j \in 1..Len(ranges) |-> <<ranges[j][1], ranges[j][2]>>]]

print_arch_ranges(arch) ==
    IF ~arch.valid THEN <<>>
    ELSE LET keys == keys_from(arch.ranges, 1)
         IN  [j \in 1..Len(keys) |-> print_range(arch.name, keys[j], arch.ranges[keys[j]])]

\* the keys build_tables writes a cell for: all but the two sentinels
RECURSIVE table_keys(_), table_keys_unfiltered(_)
\* table_keys without the test on the two sentinels
table_keys_unfiltered(j) ==
    IF j > Len(KernelKeys) THEN <<>>
    ELSE <<KernelKeys[j]>> \o table_keys_unfiltered(j + 1)

table_keys(j) ==
    IF j > Len(KernelKeys) THEN <<>>
    ELSE IF KernelKeys[j] = "SCMP_KV_UNDEF" \/ KernelKeys[j] = "SCMP_KV_UNKNOWN"
         THEN table_keys(j + 1)
         ELSE <<KernelKeys[j]>> \o table_keys(j + 1)

\* returns <<ranges_tbl, sizes_tbl>>
build_tables(s) ==
    LET keys == table_keys(1)
        dims == <<Len(s.arch), Len(KernelKeys)>>
    IN  << [kind |-> "range_table", dims |-> dims,
            rows |-> [a \in 1..Len(s.arch) |->
                        [j \in 1..Len(keys) |->
                            IF keys[j] \in DOMAIN s.arch[a].ranges
                            THEN <<s.arch[a].name, keys[j]>>
                            ELSE <<>>]]],
           [kind |-> "sizes_table", dims |-> dims,
            rows |-> [a \in 1..Len(s.arch) |->
                        [j \in 1..Len(keys) |->
                            IF keys[j] \in DOMAIN s.arch[a].ranges
                            THEN Len(s.arch[a].ranges[keys[j]])
                            ELSE 0]]] >>

print_tables(s) == build_tables(s)

RECURSIVE all_arch_ranges(_, _)
all_arch_ranges(s, a) ==
    IF a > Len(s.arch) THEN <<>>
    ELSE print_arch_ranges(s.arch[a]) \o all_arch_ranges(s, a + 1)

\* the file print_header_file leaves
print_header_file(s) ==
    [opened |-> TRUE,
     text |-> <<[kind |-> "C_HEADER_START"]>> \o all_arch_ranges(s, 1)
              \o print_tables(s) \o <<[kind |-> "C_HEADER_END"]>>]

\* no ranges.h
NoFile == [opened |-> FALSE, text |-> <<>>]

\* val when arch-introduced-validate.py is not run
Idle ==
    [pc |-> "idle", exc |-> "None", idx |-> 0, error_cnt |-> 0, status |-> 0,
     git_blame |-> FALSE, commit_tag_dict |-> EmptyDict,
     commit_of |-> EmptyDict, tag_of |-> EmptyDict]

(***************************************************************************)
(* The lines the two files are drawn from.                                 *)
(***************************************************************************)
SyscallsHeaderLines ==
    {<<stamp>> \o archs : stamp \in SyscallsStamps, archs \in SeqsOf(ArchCols, 1, MaxArch)}

IntroducedHeaderLines ==
    {<<stamp>> \o archs : stamp \in IntroducedStamps, archs \in SeqsOf(ArchCols, 1, MaxArch)}

\* the rows of n columns after the first: every choice of columns from Cols
\* when n is the header's number of architectures, one row of each other
\* length (its columns all filler)
RowsOf(Cols, filler, n) ==
    [1..n -> Cols] \cup {[k \in 1..m |-> filler] : m \in (0..MaxArch) \ {n}}

\* data row r of syscalls.csv
SyscallsDataLines(r) ==
    {<<SyscallNameAt[r]>> \o nums : nums \in RowsOf(NumCols, "0", settings.arch_cnt)}

\* data row r of introduced.csv: under the name of row r of syscalls.csv, or
\* (its columns all SCMP_KV_UNKNOWN) under the name of the row after it
IntroducedDataLines(r) ==
    {<<SyscallNameAt[r]>> \o markers :
        markers \in RowsOf(MarkerCols, "SCMP_KV_5_04", settings.arch_cnt)}
    \cup {<<SyscallNameAt[r + 1]>> \o [k \in 1..m |-> "SCMP_KV_UNKNOWN"] : m \in 0..MaxArch}

(***************************************************************************)
(* The main program: one action per line read, per build_ranges call, and  *)
(* for print_header_file.  An exception ends the run (pc = "failed").      *)
(***************************************************************************)
Init ==
    /\ pc = "syscalls"
    /\ exc = "None"
    /\ idx = 0
    /\ settings = Unbound
    /\ built = 0
    /\ hf = NoFile
    /\ val = Idle

\* a loader call on line idx of its file returned r
Loaded(r) ==
    /\ settings' = r.settings
    /\ exc' = r.exc
    /\ pc' = IF r.exc = "None" THEN pc ELSE "failed"
    /\ idx' = IF r.exc = "None" THEN idx + 1 ELSE idx
    /\ UNCHANGED <<built, hf, val>>

ReadSyscallsHeader(l) ==
    /\ pc = "syscalls"
    /\ idx = 0
    /\ Loaded(parse_syscalls_header(l))

ReadSyscallsData(l) ==
    /\ pc = "syscalls"
    /\ idx > 0
    /\ Loaded(parse_syscalls_data(settings, l))

\* end of syscalls.csv
SyscallsEOF ==
    /\ pc = "syscalls"
    /\ pc' = "introduced"
    /\ idx' = 0
    /\ UNCHANGED <<exc, settings, built, hf, val>>

ReadIntroducedHeader(l) ==
    /\ pc = "introduced"
    /\ idx = 0
    /\ Loaded(parse_introduced_header(settings, l))

ReadIntroducedData(l) ==
    /\ pc = "introduced"
    /\ idx > 0
    /\ Loaded(parse_introduced_data(settings, l, idx))

\* end of introduced.csv
IntroducedEOF ==
    /\ pc = "introduced"
    /\ pc' = "build"
    /\ built' = 0
    /\ UNCHANGED <<exc, idx, settings, hf, val>>

BuildRanges_continue ==
    /\ pc = "build"
    /\ settings.bound
    /\ LET r == build_ranges(settings.arch[built + 1])
       IN  /\ settings' = [settings EXCEPT !.arch[built + 1] = r.arch]
           /\ exc' = r.exc
           /\ built' = built + 1
           /\ pc' = IF built + 1 = Len(settings.arch) THEN "print" ELSE "build"
    /\ UNCHANGED <<idx, hf, val>>

\* one turn of "for arch in settings.arch: build_ranges(arch)"
BuildRanges ==
    /\ pc = "build"
    /\ IF ~settings.bound
       THEN /\ exc' = NameError
            /\ pc' = "failed"
            /\ UNCHANGED <<settings, built>>
       ELSE LET r == build_ranges(settings.arch[built + 1])
            IN  /\ settings' = [settings EXCEPT !.arch[built + 1] = r.arch]
                /\ exc' = r.exc
                /\ built' = IF r.exc = "None" THEN built + 1 ELSE built
                /\ pc' = IF r.exc # "None" THEN "failed"
                          ELSE IF built + 1 = Len(settings.arch) THEN "print"
                          ELSE "build"
    /\ UNCHANGED <<idx, hf, val>>

PrintHeaderFile ==
    /\ pc = "print"
    /\ hf' = print_header_file(settings)
    /\ pc' = "done"
    /\ UNCHANGED <<exc, idx, settings, built, val>>

\* the lines the model draws for each read
SyscallsHeader == \E l \in SyscallsHeaderLines : ReadSyscallsHeader(l)

SyscallsData ==
    /\ pc = "syscalls"
    /\ idx > 0
    /\ idx <= MaxRows
    /\ settings.arch_cnt > 1 => idx * settings.arch_cnt <= MaxWideCells
    /\ \E l \in SyscallsDataLines(idx) : ReadSyscallsData(l)

IntroducedHeader == \E l \in IntroducedHeaderLines : ReadIntroducedHeader(l)

IntroducedData ==
    /\ pc = "introduced"
    /\ idx > 0
    /\ idx <= Len(settings.syscall_names) + 1
    /\ \E l \in IntroducedDataLines(idx) : ReadIntroducedData(l)

Next ==
    \/ SyscallsHeader
    \/ SyscallsData
    \/ SyscallsEOF
    \/ IntroducedHeader
    \/ IntroducedData
    \/ IntroducedEOF
    \/ BuildRanges
    \/ PrintHeaderFile

Spec == Init /\ [][Next]_vars

(***************************************************************************)
(* The same program on the files of the scenario: one architecture x86_64, *)
(* syscalls read:0, write:1, open:2, close:3, fstat:5 and, when the file   *)
(* has a sixth row, ioctl:4, introduced at v1, v1, v2, v2, v1 and v2, for  *)
(* every two kernel versions v1 < v2.                                      *)
(***************************************************************************)
ScenarioStamp == "#syscall (v5.18.0 2022-05-25)"
ScenarioNums == <<"0", "1", "2", "3", "5", "4">>

\* the key of a kernel version number
KeyOf(n) == CHOOSE key \in KeySet : KERNEL_DICT[key] = n

\* the version columns row r of introduced.csv may hold, given the rows read
ScenarioMarkers(r) ==
    LET seen == settings.arch[1].introduced_version
    IN  CASE r = 1 -> VersionKeys
          [] r = 3 -> {key \in VersionKeys : KERNEL_DICT[key] > seen[1]}
          [] r \in {2, 5} -> {KeyOf(seen[1])}
          [] r \in {4, 6} -> {KeyOf(seen[3])}

ScenarioSyscallsHeader == ReadSyscallsHeader(<<ScenarioStamp, "x86_64">>)

ScenarioSyscallsData ==
    /\ pc = "syscalls"
    /\ idx \in 1..Len(ScenarioNums)
    /\ ReadSyscallsData(<<SyscallNameAt[idx], ScenarioNums[idx]>>)

ScenarioSyscallsEOF ==
    /\ idx \in {Len(ScenarioNums), Len(ScenarioNums) + 1}
    /\ SyscallsEOF

ScenarioIntroducedHeader == ReadIntroducedHeader(<<ScenarioStamp, "x86_64">>)

ScenarioIntroducedData ==
    /\ pc = "introduced"
    /\ idx \in 1..Len(settings.syscall_names)
    /\ \E marker \in ScenarioMarkers(idx) :
          ReadIntroducedData(<<SyscallNameAt[idx], marker>>)

ScenarioIntroducedEOF ==
    /\ idx = Len(settings.syscall_names) + 1
    /\ IntroducedEOF

ScenarioNext ==
    \/ ScenarioSyscallsHeader
    \/ ScenarioSyscallsData
    \/ ScenarioSyscallsEOF
    \/ ScenarioIntroducedHeader
    \/ ScenarioIntroducedData
    \/ ScenarioIntroducedEOF
    \/ BuildRanges
    \/ PrintHeaderFile

SpecScenario == Init /\ [][ScenarioNext]_vars

(***************************************************************************)
(* arch-introduced-validate.py.  val is the state of a run of the script:  *)
(* where __main__ stands (pc), the exception that ended it (exc), the      *)
(* number of lines of introduced.csv read (idx), error_cnt of __main__,    *)
(* the exit status, whether the validator of column 2 holds a git blame    *)
(* (git_blame), its commit_tag_dict, and the kernel tree at --kernelpath:  *)
(* the commit git blame names for the line of a syscall (commit_of) and    *)
(* the oldest tag that contains a commit (tag_of).  Floats are their       *)
(* hundredths.                                                             *)
(***************************************************************************)
FIRST_KNOWN_KERNEL == 504

ValidateTags ==
    <<"v5.04", "v5.05", "v5.06", "v5.07", "v5.08", "v5.09", "v5.10",
      "v5.11", "v5.12", "v5.13", "v5.14", "v5.15", "v5.16">>

ValidateEnums ==
    <<"SCMP_KV_5_04", "SCMP_KV_5_05", "SCMP_KV_5_06", "SCMP_KV_5_07",
      "SCMP_KV_5_08", "SCMP_KV_5_09", "SCMP_KV_5_10", "SCMP_KV_5_11",
      "SCMP_KV_5_12", "SCMP_KV_5_13", "SCMP_KV_5_14", "SCMP_KV_5_15",
      "SCMP_KV_5_16">>

\* KERNEL_DICT of arch-introduced-validate.py: tag -> enum
validate_KERNEL_DICT ==
    [tag \in {ValidateTags[j] : j \in 1..Len(ValidateTags)} |->
        ValidateEnums[CHOOSE j \in 1..Len(ValidateTags) : ValidateTags[j] = tag]]

\* the list validators, "None" for None
validators ==
    <<"None", "None", "Arch_x86_64", "None", "None", "None", "None", "None",
      "None", "None", "None", "None", "None", "None", "None", "None", "None">>

\* the kernel trees the runs are drawn from
ValidateNames == {"read", "write"}
Commits == {"c1", "c2"}
\* git tags of the tree: two keys of KERNEL_DICT, one older and one newer
\* than all keys, and one that float() does not parse
Tags == {"v5.04", "v5.05", "v4.19", "v5.17", "v2.6.12"}
\* the syscall has no line in syscall_64.tbl
NotInTable == "not in syscall_dict"

\* float(tag[1:]) raises ValueError
float_raises(tag) == tag = "v2.6.12"

\* float(tag[1:]), in hundredths
float(tag) ==
    CASE tag = "v5.04" -> 504
      [] tag = "v5.05" -> 505
      [] tag = "v4.19" -> 419
      [] tag = "v5.17" -> 517

AttributeError == "AttributeError: 'NoneType' object has no attribute 'splitlines'"
UnboundLocalError == "UnboundLocalError: kernel_enum"
ValueError == "ValueError: could not convert string to float"
ValidatorsCount == "IndexError: architectures were specified in the CSV"

\* Arch.validate; v is the run, the result is what validate returns (ret,
\* "None" for a bare return) or raises (exc) and the commit_tag_dict it leaves
validate(v, syscall_name, tag_enum) ==
    IF tag_enum = "SCMP_KV_UNDEF"
    THEN [exc |-> "None", ret |-> "None", commit_tag_dict |-> v.commit_tag_dict]
    ELSE IF ~v.git_blame
    THEN [exc |-> AttributeError, ret |-> "None", commit_tag_dict |-> v.commit_tag_dict]
    ELSE IF v.commit_of[syscall_name] = NotInTable
    THEN [exc |-> KeyError, ret |-> "None", commit_tag_dict |-> v.commit_tag_dict]
    ELSE
        LET commit_hash == v.commit_of[syscall_name]
            tag == IF commit_hash \in DOMAIN v.commit_tag_dict
                   THEN v.commit_tag_dict[commit_hash]
                   ELSE v.tag_of[commit_hash]
            dict == DictSet(v.commit_tag_dict, commit_hash, tag)
        IN  IF tag \in DOMAIN validate_KERNEL_DICT
            THEN [exc |-> "None",
                  ret |-> IF validate_KERNEL_DICT[tag] # tag_enum THEN "False" ELSE "True",
                  commit_tag_dict |-> dict]
            ELSE IF float_raises(tag)
            THEN [exc |-> ValueError, ret |-> "None", commit_tag_dict |-> dict]
            ELSE IF float(tag) < FIRST_KNOWN_KERNEL
            THEN [exc |-> "None",
                  ret |-> IF "KV_PRE_5_17" # tag_enum THEN "False" ELSE "True",
                  commit_tag_dict |-> dict]
            ELSE [exc |-> UnboundLocalError, ret |-> "None", commit_tag_dict |-> dict]

\* "not x" of a value validate returns
not(ret) == ret \in {"None", "False"}

\* the loop of parse_introduced_data from column idx (0-based) on
RECURSIVE validate_cols(_, _, _, _)
validate_cols(v, cols, i, error_cnt) ==
    IF i >= Len(cols)
    THEN [exc |-> "None", error_cnt |-> error_cnt, commit_tag_dict |-> v.commit_tag_dict]
    ELSE IF i = 0 \/ validators[i + 1] = "None"
    THEN validate_cols(v, cols, i + 1, error_cnt)
    ELSE LET r == validate(v, strip(cols[1]), strip(cols[i + 1]))
             w == [v EXCEPT !.commit_tag_dict = r.commit_tag_dict]
         IN  IF r.exc # "None"
             THEN [exc |-> r.exc, error_cnt |-> error_cnt,
                   commit_tag_dict |-> r.commit_tag_dict]
             ELSE validate_cols(w, cols, i + 1,
                                IF not(r.ret) THEN error_cnt + 1 ELSE error_cnt)

\* parse_introduced_data of arch-introduced-validate.py
validate_parse_introduced_data(v, line) ==
    IF Len(line) # Len(validators)
    THEN [exc |-> ValidatorsCount, error_cnt |-> 0, commit_tag_dict |-> v.commit_tag_dict]
    ELSE validate_cols(v, line, 0, 0)

\* parse_introduced_header of arch-introduced-validate.py: the validator of
\* each column of the header runs git blame and builds its syscall_dict
validate_parse_introduced_header(v, line) ==
    [exc |-> IF Len(line) > Len(validators) THEN ListIndex ELSE "None",
     git_blame |-> \E i \in 1..Len(line) :
                      i <= Len(validators) /\ validators[i] # "None"]

\* __main__ of the script before it opens introduced.csv
Started(commit_of, tag_of) ==
    [Idle EXCEPT !.pc = "header", !.commit_of = commit_of, !.tag_of = tag_of]

\* the headers of introduced.csv: of as many columns as validators, of one
\* more, and of two
ValidateHeaderLines ==
    {[i \in 1..n |-> IF i = 1 THEN "#syscall (v5.18.0 2022-05-25)" ELSE "x86_64"] :
        n \in {2, Len(validators), Len(validators) + 1}}

\* the data rows of introduced.csv: as many columns as validators with the
\* column of x86_64 drawn, and a row that lacks the last column
ValidateMarkers == {"SCMP_KV_UNDEF", "SCMP_KV_UNKNOWN", "SCMP_KV_5_04", "SCMP_KV_5_05"}

ValidateDataLines ==
    {[i \in 1..n |-> IF i = 1 THEN name ELSE IF i = 3 THEN marker ELSE "SCMP_KV_UNDEF"] :
        name \in ValidateNames, marker \in ValidateMarkers, n \in {Len(validators)}}
    \cup {[i \in 1..(Len(validators) - 1) |-> IF i = 1 THEN "read" ELSE "SCMP_KV_UNDEF"]}

\* sys.exit(n): the exit status of the process
exit_status(n) == n % 256

InitValidate ==
    /\ pc = "syscalls"
    /\ exc = "None"
    /\ idx = 0
    /\ settings = Unbound
    /\ built = 0
    /\ hf = NoFile
    /\ \E commit_of \in [ValidateNames -> Commits \cup {NotInTable}] :
       \E tag_of \in [Commits -> Tags] :
           val = Started(commit_of, tag_of)

\* an uncaught exception ends the run with status 1
ValidateRaised(e) ==
    [val EXCEPT !.pc = "failed", !.exc = e, !.status = 1]

ReadValidateHeader(l) ==
    /\ val.pc = "header"
    /\ LET r == validate_parse_introduced_header(val, l)
       IN  val' = IF r.exc # "None"
                  THEN [ValidateRaised(r.exc) EXCEPT !.git_blame = r.git_blame]
                  ELSE [val EXCEPT !.pc = "data", !.idx = 1, !.git_blame = r.git_blame]
    /\ UNCHANGED <<pc, exc, idx, settings, built, hf>>

ReadValidateData(l) ==
    /\ val.pc = "data"
    /\ LET r == validate_parse_introduced_data(val, l)
       IN  val' = IF r.exc # "None"
                  THEN [ValidateRaised(r.exc) EXCEPT !.commit_tag_dict = r.commit_tag_dict]
                  ELSE [val EXCEPT !.idx = @ + 1,
                                   !.error_cnt = @ + r.error_cnt,
                                   !.commit_tag_dict = r.commit_tag_dict]
    /\ UNCHANGED <<pc, exc, idx, settings, built, hf>>

ValidateHeader == \E l \in ValidateHeaderLines : ReadValidateHeader(l)

ValidateData ==
    /\ val.idx <= MaxRows
    /\ \E l \in ValidateDataLines : ReadValidateData(l)

\* end of introduced.csv: sys.exit(error_cnt)
ValidateExit ==
    /\ val.pc \in {"header", "data"}
    /\ val' = [val EXCEPT !.pc = "exit", !.status = exit_status(val.error_cnt)]
    /\ UNCHANGED <<pc, exc, idx, settings, built, hf>>

ValidateNext ==
    \/ ValidateHeader
    \/ ValidateData
    \/ ValidateExit

SpecValidate == InitValidate /\ [][ValidateNext]_vars

(***************************************************************************)
(* What the properties below speak of                                      *)
(***************************************************************************)
Archs == 1..Len(settings.arch)

\* the integers the ranges of a list cover
Covered(ranges) == UNION {ranges[j][1]..ranges[j][2] : j \in 1..Len(ranges)}

\* the ranges stored for key, none when the key is absent
RangesAt(arch, key) == IF key \in DOMAIN arch.ranges THEN arch.ranges[key] ELSE <<>>

\* the rows of arch whose introduced version is a kernel version <= that of key
RowsBy(arch, key) ==
    {k \in 1..Len(arch.introduced_version) \cap 1..Len(arch.syscall_nums) :
        /\ arch.introduced_version[k] # KERNEL_DICT["SCMP_KV_UNDEF"]
        /\ arch.introduced_version[k] # KERNEL_DICT["SCMP_KV_UNKNOWN"]
        /\ arch.introduced_version[k] <= KERNEL_DICT[key]}

NumbersBy(arch, key) == {int(arch.syscall_nums[k]) : k \in RowsBy(arch, key)}

HasUnknown(arch) ==
    \E k \in 1..Len(arch.introduced_version) :
        arch.introduced_version[k] = KERNEL_DICT["SCMP_KV_UNKNOWN"]

\* build_ranges has returned for every architecture
Compiled == pc \in {"print", "done"}

(***************************************************************************)
(* C1: every stored range [s,e] has s <= e, and consecutive ranges         *)
(* [s1,e1], [s2,e2] of one list have s2 > e1 + 1.                          *)
(***************************************************************************)
WellFormed(ranges) ==
    /\ \A j \in 1..Len(ranges) : ranges[j][1] <= ranges[j][2]
    /\ \A j \in 1..(Len(ranges) - 1) : ranges[j + 1][1] > ranges[j][2] + 1

C1_RangesWellFormed ==
    \A a \in Archs : \A key \in DOMAIN settings.arch[a].ranges :
        WellFormed(settings.arch[a].ranges[key])

\* a list of two ranges, the first of more than one number, has been stored
C1_Witness ==
    \E a \in Archs : \E key \in DOMAIN settings.arch[a].ranges :
        /\ Len(settings.arch[a].ranges[key]) = 2
        /\ settings.arch[a].ranges[key][1][1] < settings.arch[a].ranges[key][1][2]

(***************************************************************************)
(* C2: once build_ranges has run for every architecture, for every valid   *)
(* architecture (whatever its name) and every key V the ranges stored for  *)
(* V cover exactly the architecture's syscall numbers introduced by V.     *)
(***************************************************************************)
C2_CoverExactlyIntroduced ==
    Compiled =>
        \A a \in Archs : settings.arch[a].valid =>
            \A key \in KeySet :
                Covered(RangesAt(settings.arch[a], key)) = NumbersBy(settings.arch[a], key)

(***************************************************************************)
(* C3: for an architecture build_ranges has returned for and keys v1, v2   *)
(* with KERNEL_DICT[v1] <= KERNEL_DICT[v2], the numbers covered at v1 are  *)
(* among those covered at v2 (an absent entry covers nothing).             *)
(***************************************************************************)
C3_Monotone ==
    \A a \in 1..built : \A v1, v2 \in KeySet :
        KERNEL_DICT[v1] <= KERNEL_DICT[v2] =>
            Covered(RangesAt(settings.arch[a], v1)) \subseteq Covered(RangesAt(settings.arch[a], v2))

\* a compiled architecture covers something at one version and more at a later
C3_Witness ==
    \E a \in 1..built : \E v1, v2 \in VersionKeys :
        /\ KERNEL_DICT[v1] < KERNEL_DICT[v2]
        /\ Covered(RangesAt(settings.arch[a], v1)) # {}
        /\ Covered(RangesAt(settings.arch[a], v1)) # Covered(RangesAt(settings.arch[a], v2))

(***************************************************************************)
(* C4: an architecture with an SCMP_KV_UNKNOWN marker in any row has,      *)
(* after loading and range compilation, no entry in its ranges; every      *)
(* named array written to ranges.h is an entry of an architecture without  *)
(* such a marker; and the validity and the ranges of every other           *)
(* architecture are those its own columns alone give.                      *)
(***************************************************************************)
\* arch as the loaders left it: before any build_ranges call
AsLoaded(arch) == [arch EXCEPT !.ranges = EmptyDict]

C4_UnknownInvalidates ==
    Compiled =>
        \A a \in Archs : HasUnknown(settings.arch[a]) =>
            /\ settings.arch[a].ranges = EmptyDict
            /\ \A j \in 1..Len(hf.text) : hf.text[j].kind = "ranges" =>
                  \E b \in Archs :
                      /\ ~HasUnknown(settings.arch[b])
                      /\ settings.arch[b].name = hf.text[j].arch_name
                      /\ hf.text[j].key \in DOMAIN settings.arch[b].ranges
                      /\ hf.text[j].pairs = settings.arch[b].ranges[hf.text[j].key]
            /\ \A b \in Archs \ {a} :
                  /\ settings.arch[b].valid = ~HasUnknown(settings.arch[b])
                  /\ ~HasUnknown(settings.arch[b]) =>
                        settings.arch[b].ranges =
                            build_ranges([AsLoaded(settings.arch[b]) EXCEPT !.valid = TRUE]).arch.ranges

\* ranges.h is written and an x86_64 column has an unknown marker beside a
\* kernel version, whose syscall a valid architecture would have selected
C4_Witness ==
    /\ pc = "done"
    /\ \E a \in Archs :
          /\ settings.arch[a].name = "x86_64"
          /\ HasUnknown(settings.arch[a])
          /\ \E k \in 1..Len(settings.arch[a].introduced_version) :
                settings.arch[a].introduced_version[k] > 0

(***************************************************************************)
(* C5, as the scenario states it: the ranges compiled at v1 are [[0,1]],   *)
(* those at v2 are [[0,3]], and with ioctl:4 at v2 those at v2 are [[0,5]].*)
(***************************************************************************)
\* the scenario's architecture, its v1 and v2, and whether ioctl is a row
ScenarioArch == settings.arch[1]
ScenarioV1 == KeyOf(ScenarioArch.introduced_version[1])
ScenarioV2 == KeyOf(ScenarioArch.introduced_version[3])
WithIoctl == Len(ScenarioArch.syscall_nums) = 6

C5_ScenarioAsStated ==
    Compiled =>
        /\ RangesAt(ScenarioArch, ScenarioV1) = << <<0, 1>> >>
        /\ ~WithIoctl => RangesAt(ScenarioArch, ScenarioV2) = << <<0, 3>> >>
        /\ WithIoctl => RangesAt(ScenarioArch, ScenarioV2) = << <<0, 5>> >>

(***************************************************************************)
(* C5, amended: fstat:5 is introduced at v1, so it is selected at v1 and   *)
(* at v2: the ranges at v1 are [[0,1],[5,5]], those at v2 are              *)
(* [[0,3],[5,5]], and with ioctl:4 at v2 those at v2 are [[0,5]].          *)
(***************************************************************************)
C5_Scenario ==
    Compiled =>
        /\ RangesAt(ScenarioArch, ScenarioV1) = << <<0, 1>>, <<5, 5>> >>
        /\ ~WithIoctl => RangesAt(ScenarioArch, ScenarioV2) = << <<0, 3>>, <<5, 5>> >>
        /\ WithIoctl => RangesAt(ScenarioArch, ScenarioV2) = << <<0, 5>> >>

\* the scenario with ioctl has been compiled and written
C5_Witness ==
    /\ pc = "done"
    /\ WithIoctl
    /\ ScenarioArch.ranges[ScenarioV2] = << <<0, 5>> >>

(***************************************************************************)
(* C6: when the name of row r of introduced.csv differs from the name of   *)
(* row r of syscalls.csv, parse_introduced_data raises on that row with    *)
(* the settings as they were (no marker of the row recorded), and a failed *)
(* run has written no ranges.h.                                            *)
(***************************************************************************)
C6_RowIdentityMismatch ==
    /\ [][(pc = "introduced" /\ idx \in 1..Len(settings.syscall_names)) =>
            \A l \in IntroducedDataLines(idx) :
                (strip(l[1]) # settings.syscall_names[idx] /\ ReadIntroducedData(l)) =>
                    /\ pc' = "failed"
                    /\ exc' # "None"
                    /\ settings' = settings]_vars
    /\ [](pc = "failed" => hf = NoFile)

\* the row after some recorded row failed on its name
C6_Witness ==
    /\ pc = "failed"
    /\ exc = RowSyscallName
    /\ idx = 2
    /\ \A a \in Archs : Len(settings.arch[a].introduced_version) = 1
    /\ hf = NoFile

(***************************************************************************)
(* C7: a run in which an exception was raised never opens or writes        *)
(* ranges.h: the file exists only when both tables were loaded and         *)
(* build_ranges returned for every architecture, all without exception.    *)
(***************************************************************************)
C7_NoOutputOnError ==
    /\ (exc # "None" \/ pc = "failed") => hf = NoFile
    /\ hf # NoFile => (pc = "done" /\ exc = "None" /\ built = Len(settings.arch))

\* the last step before print_header_file raised: build_ranges of the last
\* architecture, after ranges were stored for an earlier key
C7_Witness ==
    /\ pc = "failed"
    /\ exc = ArithmeticError
    /\ built + 1 = Len(settings.arch)
    /\ settings.arch[built + 1].ranges # EmptyDict
    /\ hf = NoFile

(***************************************************************************)
(* C8: range compilation raises whenever a syscall number selected for an  *)
(* (architecture, version) occurs more than once: where build_ranges has   *)
(* compiled an architecture and returned, no key selects two rows of the   *)
(* same number.                                                            *)
(***************************************************************************)
C8_DuplicateAlwaysRaises ==
    \A a \in 1..built :
        (settings.arch[a].valid /\ settings.arch[a].name = "x86_64") =>
            \A key \in KeySet : \A k1, k2 \in RowsBy(settings.arch[a], key) :
                k1 # k2 => int(settings.arch[a].syscall_nums[k1])
                             # int(settings.arch[a].syscall_nums[k2])

(***************************************************************************)
(* C9: a run whose introduced.csv has fewer or more data rows than         *)
(* syscalls.csv ends in an error and writes no ranges.h, whatever the      *)
(* names and validity of the architectures.  (idx counts the lines read    *)
(* from introduced.csv, its header among them.)                            *)
(***************************************************************************)
IntroducedRows == IF idx = 0 THEN 0 ELSE idx - 1

C9_RowCountMismatchIsFatal ==
    (pc = "done" \/ hf # NoFile) => IntroducedRows = Len(settings.syscall_names)

(***************************************************************************)
(* C10, as stated: parse_introduced_header fails whenever the header       *)
(* disagrees with that of syscalls.csv on the number, a name or the order  *)
(* of the architectures, and returns with the settings unchanged when they *)
(* agree.                                                                  *)
(***************************************************************************)
ArchsAgree(l) ==
    /\ Len(l) - 1 = Len(settings.arch)
    /\ \A k \in 1..(Len(l) - 1) : strip(l[k + 1]) = settings.arch[k].name

C10_AsStated ==
    [][(pc = "introduced" /\ idx = 0 /\ settings.bound) =>
        \A l \in IntroducedHeaderLines : ReadIntroducedHeader(l) =>
            IF ArchsAgree(l)
            THEN exc' = "None" /\ pc' = "introduced" /\ settings' = settings
            ELSE exc' # "None" /\ pc' = "failed"]_vars

(***************************************************************************)
(* C10, amended: parse_introduced_header fails whenever the header         *)
(* disagrees with that of syscalls.csv on the number, a name or the order  *)
(* of the architectures or on the kernel version, and returns with the     *)
(* settings unchanged when they agree on all of these.                     *)
(***************************************************************************)
C10_HeaderMismatch ==
    [][(pc = "introduced" /\ idx = 0 /\ settings.bound) =>
        \A l \in IntroducedHeaderLines : ReadIntroducedHeader(l) =>
            IF ArchsAgree(l) /\ kernel_version_of(strip(l[1])) = settings.kernel_version
            THEN exc' = "None" /\ pc' = "introduced" /\ settings' = settings
            ELSE exc' # "None" /\ pc' = "failed"]_vars

\* a header of two different architectures failed on an architecture name
C10_Witness ==
    /\ pc = "failed"
    /\ exc = HeaderArchName
    /\ Len(settings.arch) = 2
    /\ settings.arch[1].name # settings.arch[2].name

(***************************************************************************)
(* C11: in the written tables the rows follow the architectures of the     *)
(* header in order and the columns the kernel versions in ascending order, *)
(* the two sentinels left out; the cell of range_table for an architecture *)
(* and a version refers to ranges_<arch>_<version> exactly when the        *)
(* architecture has ranges stored for the version and is NULL otherwise,   *)
(* and the cell of sizes_table at the same place holds the number of these *)
(* ranges, 0 where there are none.                                         *)
(***************************************************************************)
ChunkOf(kind) == hf.text[CHOOSE j \in 1..Len(hf.text) : hf.text[j].kind = kind]
HasChunk(kind) == \E j \in 1..Len(hf.text) : hf.text[j].kind = kind
NULL == <<>>

C11_TablesFollowRangeTable ==
    pc = "done" =>
        /\ HasChunk("range_table") /\ HasChunk("sizes_table")
        /\ LET range_table == ChunkOf("range_table").rows
               sizes_table == ChunkOf("sizes_table").rows
           IN  /\ Len(range_table) = Len(settings.arch)
               /\ Len(sizes_table) = Len(settings.arch)
               /\ \A a \in Archs :
                    /\ DOMAIN range_table[a] = 1..Cardinality(VersionKeys)
                    /\ DOMAIN sizes_table[a] = 1..Cardinality(VersionKeys)
                    /\ \A n \in 1..Cardinality(VersionKeys) :
                         LET arch == settings.arch[a]
                             key == KeyOf(n)
                         IN  IF key \in DOMAIN arch.ranges
                             THEN /\ range_table[a][n] = <<arch.name, key>>
                                  /\ sizes_table[a][n] = Len(arch.ranges[key])
                             ELSE /\ range_table[a][n] = NULL
                                  /\ sizes_table[a][n] = 0

\* tables were written for two architectures: the first has ranges for a
\* version and none for the version before, the second has no ranges at all
C11_Witness ==
    /\ pc = "done"
    /\ Len(settings.arch) = 2
    /\ KeyOf(2) \in DOMAIN settings.arch[1].ranges
    /\ KeyOf(1) \notin DOMAIN settings.arch[1].ranges
    /\ DOMAIN settings.arch[2].ranges = {}
    /\ ChunkOf("range_table").rows[1][2] = <<settings.arch[1].name, KeyOf(2)>>
    /\ ChunkOf("range_table").rows[1][1] = NULL
    /\ ChunkOf("sizes_table").rows[1][2] = 1

(***************************************************************************)
(* C12: a valid architecture for which no syscall number is selected at a  *)
(* version has no ranges stored for that version (the key is absent, the   *)
(* list is never empty), and what is written to ranges.h for an invalid    *)
(* architecture differs from what is written for the same architecture     *)
(* when it is valid and has no syscall by any version.                     *)
(***************************************************************************)
\* arch as the program holds it before print_header_file when its rows of
\* introduced.csv all say SCMP_KV_UNDEF instead
NoSyscalls(arch) ==
    build_ranges([arch EXCEPT
        !.valid = TRUE,
        !.introduced_version =
            [k \in DOMAIN @ |-> KERNEL_DICT["SCMP_KV_UNDEF"]]]).arch

C12_AbsentAndDistinguishable ==
    pc = "done" =>
        /\ \A a \in Archs :
            /\ \A key \in DOMAIN settings.arch[a].ranges :
                 settings.arch[a].ranges[key] # <<>>
            /\ settings.arch[a].valid =>
                 \A key \in VersionKeys :
                     NumbersBy(settings.arch[a], key) = {} =>
                         key \notin DOMAIN settings.arch[a].ranges
        /\ \A a \in Archs :
            ~settings.arch[a].valid =>
                hf # print_header_file(
                        [settings EXCEPT !.arch[a] = NoSyscalls(settings.arch[a])])

(***************************************************************************)
(* C13: the named arrays read back from ranges.h are the ranges the        *)
(* architectures hold: the array names are the (architecture, version)     *)
(* pairs that have ranges stored, and the {start, end} pairs of the array  *)
(* ranges_<arch>_<version>, in order, are the ranges stored for that       *)
(* architecture and version.                                               *)
(***************************************************************************)
\* the places of the named arrays in ranges.h
Arrays == {j \in 1..Len(hf.text) : hf.text[j].kind = "ranges"}

\* the (architecture name, version) pairs the arrays of ranges.h are named by
ArrayNames == {<<hf.text[j].arch_name, hf.text[j].key>> : j \in Arrays}

RoundTrip ==
    /\ ArrayNames =
         UNION {{<<settings.arch[a].name, key>> :
                    key \in DOMAIN settings.arch[a].ranges} : a \in Archs}
    /\ \A a \in Archs : \A key \in DOMAIN settings.arch[a].ranges :
         \A j \in Arrays :
             (hf.text[j].arch_name = settings.arch[a].name /\ hf.text[j].key = key)
                 => hf.text[j].pairs = settings.arch[a].ranges[key]

C13_AsStated == pc = "done" => RoundTrip

(***************************************************************************)
(* C13, amended: when the architectures of the header have different       *)
(* names, the named arrays read back from ranges.h are the ranges the      *)
(* architectures hold, name by name and pair by pair.                      *)
(***************************************************************************)
DistinctNames ==
    \A a, b \in Archs : a # b => settings.arch[a].name # settings.arch[b].name

C13_RoundTrip == (pc = "done" /\ DistinctNames) => RoundTrip

\* ranges.h was written for two architectures of different names, with the
\* arrays of the first, each of one pair, and none for the second
C13_Witness ==
    /\ pc = "done"
    /\ Len(settings.arch) = 2
    /\ DistinctNames
    /\ Arrays # {}
    /\ \A j \in Arrays :
         /\ hf.text[j].arch_name = settings.arch[1].name
         /\ Len(hf.text[j].pairs) = 1
    /\ DOMAIN settings.arch[2].ranges = {}

(***************************************************************************)
(* C14: for range_table and for sizes_table, the first declared dimension  *)
(* is the number of rows written and the second declared dimension is the  *)
(* number of cells written in each row.                                    *)
(***************************************************************************)
DimensionsFit(table) ==
    /\ table.dims[1] = Len(table.rows)
    /\ \A a \in 1..Len(table.rows) : table.dims[2] = Len(table.rows[a])

C14_DeclaredDimensions ==
    pc = "done" =>
        /\ DimensionsFit(ChunkOf("range_table"))
        /\ DimensionsFit(ChunkOf("sizes_table"))

(***************************************************************************)
(* C15: parse_introduced_data of arch-introduced-validate.py returns, for  *)
(* a row it validates, the number of validated columns whose recorded tag  *)
(* is not SCMP_KV_UNDEF and differs from the tag the kernel history gives  *)
(* for the syscall (a column marked SCMP_KV_UNDEF is skipped and adds      *)
(* nothing), and the exit status of the run is the sum of these numbers.   *)
(***************************************************************************)
\* the enum of the oldest tag that holds the commit of the syscall's line
KernelEnum(name) ==
    LET tag == val.tag_of[val.commit_of[name]]
    IN  IF tag \in DOMAIN validate_KERNEL_DICT THEN validate_KERNEL_DICT[tag]
        ELSE "KV_PRE_5_17"

\* the validated columns of a row whose recorded tag differs from the kernel's
Mismatches(l) ==
    {i \in 2..Len(l) :
        /\ validators[i] # "None"
        /\ strip(l[i]) # "SCMP_KV_UNDEF"
        /\ strip(l[i]) # KernelEnum(strip(l[1]))}

C15_UndefSkippedErrorsCounted ==
    /\ [][\A l \in ValidateDataLines :
            (ReadValidateData(l) /\ val'.exc = "None") =>
                val'.error_cnt = val.error_cnt + Cardinality(Mismatches(l))]_vars
    /\ [](val.pc = "exit" => val.status = val.error_cnt)

====
